---- MODULE Spec2Model ----
(***************************************************************************)
(* Reconciliation and revision tracking of the economic data pipeline:     *)
(* smart_update (azure_data_tracker.py) over the table gateway             *)
(* (azure_connector.py), and the freshness gate that the orchestrator      *)
(* (run_scraper) consults.                                                  *)
(*                                                                         *)
(* Numeric values are fixed-point integers in units of 0.0001, so the      *)
(* tolerance 0.001 is 10 units.  A date is <<day, hour>>; the canonical    *)
(* 'YYYY-MM-DD' string of a day is <<day, 0>>.                             *)
(***************************************************************************)
EXTENDS Integers, Sequences, FiniteSets, TLC

VARIABLES
    store,          \* dataset table name -> table: the record tables; a table
                    \* maps <<PartitionKey, RowKey>> to the entity stored there
    ledger,         \* the data_revisions table
    metadata,       \* the scrapermetadata table
    now,            \* wall clock, in hours
    stamp,          \* the last fine-grained clock reading handed out (utcnow())
    data_df,        \* the caller's DataFrame of the last smart_update call (mutated in place)
    existing_data,  \* the index smart_update built from the rows it read
    new_records,    \* the three scratch lists of the last smart_update call
    updates,
    revisions,
    results,        \* what the last smart_update call returned
    log,            \* one entry per operation so far: its gateway calls, in order,
                    \* and what it returned
    dataset_name,   \* the dataset of the last operation
    status,         \* what the last run_scraper returned ("none" before any)
    gate,           \* the should_update question just asked and its answer (NoGate:
                    \* the last operation was not should_update)
    changes,        \* observed: how often a call changed date.field from old to new
    history,        \* the last get_revision_history question and its answer
    proc,           \* dataset -> the smart_update call in flight for it, when
                    \* calls of different datasets run side by side
    probe,          \* the last direct call of a helper function: its name, its
                    \* arguments and what it returned (NoProbe before any)
    summary         \* what the last run_edb_scrapers returned (NoSummary before any)

vars == <<store, ledger, metadata, now, stamp, data_df, existing_data,
          new_records, updates, revisions, results, log, dataset_name,
          status, gate, changes, history, proc, probe, summary>>

runs == Len(log)
\* the gateway calls of the last operation
calls == IF log = <<>> THEN <<>> ELSE log[Len(log)].calls

----------------------------------------------------------------------------
(* Bounds of the model *)

MaxBatchLen == 2
\* entities per transaction; the code's 100 scaled down so that a write group
\* of the model spans more than one chunk
batch_size == 2
\* hours the wall clock runs
MaxClock == 26
\* run_scraper executions of one behaviour
MaxScraperRuns == 2

(* Program constants *)

\* abs(new - old) > 0.001, in units of 0.0001
Tolerance == 10
\* update_frequency_hours: int = 24
DefaultFrequencyHours == 24
\* pd.isna(x): the null / NaN marker of a value
NaN == -1
\* get_last_run(...) is None
NoRun == -1

----------------------------------------------------------------------------
(* Input domains *)

Datasets == {"unemployment_rate", "auto_sales"}
TestDataset == "unemployment_rate"

\* day 1 arrives as a timestamp at noon, day 2 already at midnight
RawDates == {<<1, 12>>, <<2, 0>>}

\* tracked value columns, in the order the caller lists them
value_fields == <<"value", "rate">>

FieldValues == {
    [value |-> 0,   rate |-> 0],
    [value |-> 10,  rate |-> 0],
    [value |-> 21,  rate |-> 0],
    [value |-> NaN, rate |-> 0],
    [value |-> 21,  rate |-> 20] }

Rows == { [date |-> d, value |-> v.value, rate |-> v.rate] :
            d \in RawDates, v \in FieldValues }

\* a date text that pd.to_datetime cannot parse
Unparsable == <<0, 0>>

BadRows == { [date |-> Unparsable, value |-> 0, rate |-> 0] }

Batches == UNION { [1..n -> Rows \cup BadRows] : n \in 0..MaxBatchLen }

ZeroResults == [new |-> 0, updated |-> 0, revisions |-> 0]

EmptyTable == [k \in {} |-> 0]

----------------------------------------------------------------------------
(* Table gateway (azure_connector.py) *)

\* the identity of an entity within its table
Key(entity) == <<entity.PartitionKey, entity.RowKey>>

Min(a, b) == IF a < b THEN a ELSE b

\* a store that inserts but never replaces a row
Upsert_insert_only(t, entity) ==
    [k \in DOMAIN t \cup {Key(entity)} |->
        IF k \in DOMAIN t THEN t[k] ELSE entity]

Upsert(t, entity) ==
    [k \in DOMAIN t \cup {Key(entity)} |->
        IF k = Key(entity) THEN entity ELSE t[k]]

RECURSIVE UpsertAll(_, _)
\* one transaction: the operations of a chunk, applied in order
UpsertAll(t, entities) ==
    IF entities = <<>> THEN t
    ELSE UpsertAll(Upsert(t, Head(entities)), Tail(entities))

NChunks(entities) == (Len(entities) + batch_size - 1) \div batch_size

Chunk(entities, c) ==
    SubSeq(entities, (c - 1) * batch_size + 1, Min(c * batch_size, Len(entities)))

RECURSIVE SubmitChunks_stop(_, _, _, _)
\* a loop that gives up at the first failed chunk
SubmitChunks_stop(t, entities, out, c) ==
    IF c > NChunks(entities) \/ ~out[c] THEN t
    ELSE SubmitChunks_stop(UpsertAll(t, Chunk(entities, c)), entities, out, c + 1)

RECURSIVE SubmitChunks(_, _, _, _)
\* for i in range(0, len(entities), batch_size): submit_transaction, a failed
\* chunk (out[c] = FALSE) commits nothing and does not stop the loop
SubmitChunks(t, entities, out, c) ==
    IF c > NChunks(entities) THEN t
    ELSE SubmitChunks(IF out[c] THEN UpsertAll(t, Chunk(entities, c)) ELSE t,
                      entities, out, c + 1)

batch_upsert(t, entities, out) ==
    [table   |-> SubmitChunks(t, entities, out, 1),
     success |-> \A c \in 1..NChunks(entities) : out[c]]

\* a failed query is logged and answered with the empty list
query_entities(t, ok) == IF ok THEN t ELSE EmptyTable

\* a create_table that reports success whatever the store answered
create_table_true(ok) == TRUE

\* True if the table was created or already exists, False otherwise
create_table(ok) == ok

\* upsert_entity: True if the row was written, False (and no write) otherwise
upsert_entity(t, entity, ok) ==
    [table |-> IF ok THEN Upsert(t, entity) ELSE t, success |-> ok]

\* a gateway call: the function that made it, the operation, the table, and
\* whether the store carried it out
CallBy(by, op, table, ok) == [by |-> by, op |-> op, table |-> table, ok |-> ok]

Call(op, table, ok) == CallBy("smart_update", op, table, ok)

----------------------------------------------------------------------------
(* Run metadata and the freshness gate (azure_connector.py) *)

\* datetime.isoformat() and dateutil's parser.parse()
isoformat(t) == <<"iso", t>>
parse(text) == text[2]

update_last_run(meta, name, t, ok) ==
    upsert_entity(meta, [PartitionKey |-> "dataset", RowKey |-> name,
                         last_run |-> isoformat(t)], ok)

\* get_entity answers None when the row is absent and when the lookup fails
get_last_run(meta, name, ok) ==
    IF ok /\ <<"dataset", name>> \in DOMAIN meta
    THEN parse(meta[<<"dataset", name>>].last_run) ELSE NoRun

\* a gate that waits for more than the interval
should_update_gt(meta, name, update_frequency_hours, t, ok) ==
    LET last_run == get_last_run(meta, name, ok)
    IN  IF last_run = NoRun THEN TRUE
        ELSE (t - last_run) > update_frequency_hours

\* a gate that is always open
should_update_true(meta, name, update_frequency_hours, t, ok) == TRUE

\* a gate that stays closed when the lookup fails
should_update_closed(meta, name, update_frequency_hours, t, ok) ==
    LET last_run == get_last_run(meta, name, ok)
    IN  IF ~ok THEN FALSE
        ELSE IF last_run = NoRun THEN TRUE
        ELSE (t - last_run) >= update_frequency_hours

should_update(meta, name, update_frequency_hours, t, ok) ==
    LET last_run == get_last_run(meta, name, ok)
    IN  IF last_run = NoRun THEN TRUE
        ELSE (t - last_run) >= update_frequency_hours

----------------------------------------------------------------------------
(* smart_update (azure_data_tracker.py) *)

\* a test that takes the null marker for a number
isna_never(v) == FALSE

isna(v) == v = NaN

Abs(x) == IF x < 0 THEN -x ELSE x

\* pd.to_datetime(...).dt.strftime('%Y-%m-%d')
\* a formatting that keeps the time of day in the text
strftime_keep(d) == d

strftime(d) == <<d[1], 0>>

\* pd.to_datetime raises on the first text it cannot parse
to_datetime_raises(df) == \E i \in DOMAIN df : df[i].date = Unparsable

NormalizeDates(df) ==
    [i \in 1..Len(df) |-> [df[i] EXCEPT !.date = strftime(df[i].date)]]

\* existing_data[entity[date_field]] = entity
ExistingData(entities) ==
    [d \in { entities[k].date : k \in DOMAIN entities } |->
        CHOOSE e \in { entities[k] : k \in DOMAIN entities } : e.date = d]

\* the keys, then every field of the row, tracked or not
Entity(ds, row) ==
    [PartitionKey |-> ds, RowKey |-> row.date] @@ row

\* a comparison that counts a difference of exactly the tolerance as a change
ValueChanged_ge(new_value, old_value) ==
    /\ ~isna(new_value)
    /\ ~isna(old_value)
    /\ Abs(new_value - old_value) >= Tolerance

ValueChanged(new_value, old_value) ==
    /\ ~isna(new_value)
    /\ ~isna(old_value)
    /\ Abs(new_value - old_value) > Tolerance

ChangedFields(row, existing_row) ==
    SelectSeq(value_fields, LAMBDA f : ValueChanged(row[f], existing_row[f]))

IsNew(row, existing) == row.date \notin DOMAIN existing

\* a comparison that takes a difference in any field, tracked or not, for a
\* change of the record
RecordChanged_any(row, existing) ==
    /\ ~IsNew(row, existing)
    /\ \E f \in DOMAIN row : row[f] # existing[row.date][f]

RecordChanged(row, existing) ==
    /\ ~IsNew(row, existing)
    /\ ChangedFields(row, existing[row.date]) # <<>>

\* a ledger entry keyed by date and field alone
Revision_untimed(ds, record_date, field, old_value, new_value, ts) ==
    [PartitionKey  |-> ds,
     RowKey        |-> <<record_date, field, 0>>,
     dataset       |-> ds,
     data_date     |-> record_date,
     value_field   |-> field,
     old_value     |-> old_value,
     new_value     |-> new_value,
     revision_date |-> ts]

\* a ledger entry that always names the first tracked field
Revision_firstfield(ds, record_date, field, old_value, new_value, ts) ==
    [PartitionKey  |-> ds,
     RowKey        |-> <<record_date, value_fields[1], ts>>,
     dataset       |-> ds,
     data_date     |-> record_date,
     value_field   |-> value_fields[1],
     old_value     |-> old_value,
     new_value     |-> new_value,
     revision_date |-> ts]

\* a ledger entry filed under one partition for every dataset
Revision_onepartition(ds, record_date, field, old_value, new_value, ts) ==
    [PartitionKey  |-> "data_revisions",
     RowKey        |-> <<record_date, field, ts>>,
     dataset       |-> ds,
     data_date     |-> record_date,
     value_field   |-> field,
     old_value     |-> old_value,
     new_value     |-> new_value,
     revision_date |-> ts]

\* a ledger entry with the two values in each other's place
Revision_swapped(ds, record_date, field, old_value, new_value, ts) ==
    [PartitionKey  |-> ds,
     RowKey        |-> <<record_date, field, ts>>,
     dataset       |-> ds,
     data_date     |-> record_date,
     value_field   |-> field,
     old_value     |-> new_value,
     new_value     |-> old_value,
     revision_date |-> ts]

Revision(ds, record_date, field, old_value, new_value, ts) ==
    [PartitionKey  |-> ds,
     RowKey        |-> <<record_date, field, ts>>,
     dataset       |-> ds,
     data_date     |-> record_date,
     value_field   |-> field,
     old_value     |-> old_value,
     new_value     |-> new_value,
     revision_date |-> ts]

\* the revisions of one incoming row; the clock advances by step per reading
RowRevisions(ds, row, existing_row, ts, step) ==
    LET fs == ChangedFields(row, existing_row)
    IN  [i \in 1..Len(fs) |->
            Revision(ds, row.date, fs[i], existing_row[fs[i]], row[fs[i]],
                     ts + step * (i - 1))]

RECURSIVE CollectRevisions(_, _, _, _, _)
CollectRevisions(ds, df, existing, ts, step) ==
    IF df = <<>> THEN <<>>
    ELSE LET row  == Head(df)
             revs == IF IsNew(row, existing) THEN <<>>
                     ELSE RowRevisions(ds, row, existing[row.date], ts, step)
         IN  revs \o CollectRevisions(ds, Tail(df), existing,
                                      ts + step * Len(revs), step)

\* a classification that keeps one new record per absent date
NewRecords_dedup(ds, df, existing) ==
    LET sel == SelectSeq(df, LAMBDA row : IsNew(row, existing))
        n   == Cardinality({ sel[i].date : i \in 1..Len(sel) })
    IN  [i \in 1..n |-> Entity(ds, sel[i])]

NewRecords(ds, df, existing) ==
    LET sel == SelectSeq(df, LAMBDA row : IsNew(row, existing))
    IN  [i \in 1..Len(sel) |-> Entity(ds, sel[i])]

\* a classification that rewrites every row of a stored date
Updates_existing(ds, df, existing) ==
    LET sel == SelectSeq(df, LAMBDA row : ~IsNew(row, existing))
    IN  [i \in 1..Len(sel) |-> Entity(ds, sel[i])]

\* a classification that never rewrites a stored row
Updates_none(ds, df, existing) == <<>>

Updates(ds, df, existing) ==
    LET sel == SelectSeq(df, LAMBDA row : RecordChanged(row, existing))
    IN  [i \in 1..Len(sel) |-> Entity(ds, sel[i])]

\* a count of the rows handed over, whatever the write reported
Count_attempted(success, entities) == Len(entities)

Count(success, entities) == IF success THEN Len(entities) ELSE 0

\* a frame that is never taken for empty
empty_never(df) == FALSE

\* DataFrame.empty
empty(df) == df = <<>>

\* a call that gives up on the remaining write groups once one has failed
smart_update_stop_on_failure(table, ledgerT, ds, df0, flt, ts) ==
    LET df       == NormalizeDates(df0)
        aborted  == [table |-> table, ledger |-> ledgerT, results |-> ZeroResults,
                     existing_data |-> EmptyTable, new_records |-> <<>>,
                     updates |-> <<>>, revisions |-> <<>>]
    IN
    IF empty(df0) THEN
        aborted @@ [data_df |-> df0, calls |-> <<>>, raised |-> FALSE]
    ELSE IF to_datetime_raises(df0) THEN
        aborted @@ [data_df |-> df0, calls |-> <<>>, raised |-> TRUE]
    ELSE IF ~create_table(flt.create) THEN
        aborted @@ [data_df |-> df, raised |-> FALSE,
                    calls |-> <<Call("create_table", ds, FALSE)>>]
    ELSE
        LET existing == ExistingData(query_entities(table, flt.query))
            news     == NewRecords(ds, df, existing)
            upds     == Updates(ds, df, existing)
            revs     == CollectRevisions(ds, df, existing, ts, flt.step)
            wNew     == batch_upsert(table, news, flt.new)
            doUpd    == upds # <<>> /\ (news = <<>> \/ wNew.success)
            wUpd     == batch_upsert(wNew.table, upds, flt.upd)
            doRev    == /\ revs # <<>>
                        /\ (news = <<>> \/ wNew.success)
                        /\ (upds = <<>> \/ wUpd.success)
            wRev     == batch_upsert(ledgerT, revs, flt.rev)
        IN  [table    |-> IF doUpd THEN wUpd.table
                          ELSE IF news # <<>> THEN wNew.table ELSE table,
             ledger   |-> IF doRev THEN wRev.table ELSE ledgerT,
             results  |-> [new       |-> IF news # <<>> THEN Count(wNew.success, news) ELSE 0,
                           updated   |-> IF doUpd THEN Count(wUpd.success, upds) ELSE 0,
                           revisions |-> IF doRev THEN Count(wRev.success, revs) ELSE 0],
             existing_data |-> existing,
             new_records   |-> news,
             updates       |-> upds,
             revisions     |-> revs,
             data_df       |-> df,
             raised        |-> FALSE,
             calls |-> <<Call("create_table", ds, flt.create),
                         Call("query_entities", ds, flt.query)>>
                       \o (IF news # <<>>
                           THEN <<Call("batch_upsert", ds, wNew.success)>> ELSE <<>>)
                       \o (IF doUpd
                           THEN <<Call("batch_upsert", ds, wUpd.success)>> ELSE <<>>)
                       \o (IF doRev
                           THEN <<Call("batch_upsert", "data_revisions", wRev.success)>>
                           ELSE <<>>)]

\* The whole call.  flt names what the store does to each call of this run
\* (create, query: BOOLEAN; new, upd, rev: chunk number -> BOOLEAN) and
\* whether the clock moves between two readings (step in {0, 1}).
smart_update(table, ledgerT, ds, df0, flt, ts) ==
    LET df       == NormalizeDates(df0)
        aborted  == [table |-> table, ledger |-> ledgerT, results |-> ZeroResults,
                     existing_data |-> EmptyTable, new_records |-> <<>>,
                     updates |-> <<>>, revisions |-> <<>>]
    IN
    IF empty(df0) THEN
        aborted @@ [data_df |-> df0, calls |-> <<>>, raised |-> FALSE]
    ELSE IF to_datetime_raises(df0) THEN
        \* the exception leaves smart_update before the frame is assigned
        aborted @@ [data_df |-> df0, calls |-> <<>>, raised |-> TRUE]
    ELSE IF ~create_table(flt.create) THEN
        aborted @@ [data_df |-> df, raised |-> FALSE,
                    calls |-> <<Call("create_table", ds, FALSE)>>]
    ELSE
        LET existing == ExistingData(query_entities(table, flt.query))
            news     == NewRecords(ds, df, existing)
            upds     == Updates(ds, df, existing)
            revs     == CollectRevisions(ds, df, existing, ts, flt.step)
            wNew     == batch_upsert(table, news, flt.new)
            wUpd     == batch_upsert(wNew.table, upds, flt.upd)
            wRev     == batch_upsert(ledgerT, revs, flt.rev)
        IN  [table    |-> IF upds # <<>> THEN wUpd.table
                          ELSE IF news # <<>> THEN wNew.table ELSE table,
             ledger   |-> IF revs # <<>> THEN wRev.table ELSE ledgerT,
             results  |-> [new       |-> IF news # <<>> THEN Count(wNew.success, news) ELSE 0,
                           updated   |-> IF upds # <<>> THEN Count(wUpd.success, upds) ELSE 0,
                           revisions |-> IF revs # <<>> THEN Count(wRev.success, revs) ELSE 0],
             existing_data |-> existing,
             new_records   |-> news,
             updates       |-> upds,
             revisions     |-> revs,
             data_df       |-> df,
             raised        |-> FALSE,
             calls |-> <<Call("create_table", ds, flt.create),
                         Call("query_entities", ds, flt.query)>>
                       \o (IF news # <<>>
                           THEN <<Call("batch_upsert", ds, wNew.success)>> ELSE <<>>)
                       \o (IF upds # <<>>
                           THEN <<Call("batch_upsert", ds, wUpd.success)>> ELSE <<>>)
                       \o (IF revs # <<>>
                           THEN <<Call("batch_upsert", "data_revisions", wRev.success)>>
                           ELSE <<>>)]

\* every way the store can answer the calls of one smart_update(ds, df0)
FaultPlans(table, ds, df0) ==
    LET df == NormalizeDates(df0)
    IN  IF df0 = <<>> \/ to_datetime_raises(df0) THEN
            { [create |-> TRUE, query |-> TRUE, new |-> <<>>, upd |-> <<>>,
               rev |-> <<>>, step |-> 1] }
        ELSE
            { [create |-> FALSE, query |-> TRUE, new |-> <<>>, upd |-> <<>>,
               rev |-> <<>>, step |-> 1] }
            \cup
            UNION { LET existing == ExistingData(query_entities(table, q))
                        news     == NewRecords(ds, df, existing)
                        upds     == Updates(ds, df, existing)
                        revs     == CollectRevisions(ds, df, existing, 0, 0)
                    IN  { [create |-> TRUE, query |-> q, new |-> n, upd |-> u,
                           rev |-> r, step |-> s] :
                            n \in [1..NChunks(news) -> BOOLEAN],
                            u \in [1..NChunks(upds) -> BOOLEAN],
                            r \in [1..NChunks(revs) -> BOOLEAN],
                            s \in IF Len(revs) >= 2 THEN {0, 1} ELSE {1} }
                  : q \in BOOLEAN }

----------------------------------------------------------------------------
(* Observation of what a call did to the stored rows *)

\* the tracked fields of rows that existed before the call and hold another
\* value after it
TrackedChanges(before, after) ==
    { c \in { [date |-> before[k].date, field |-> value_fields[i],
               old |-> before[k][value_fields[i]],
               new |-> after[k][value_fields[i]]] :
                 k \in DOMAIN before, i \in DOMAIN value_fields } :
        c.old # c.new }

Observe(seen, S) ==
    [k \in DOMAIN seen \cup S |->
        (IF k \in DOMAIN seen THEN seen[k] ELSE 0) + (IF k \in S THEN 1 ELSE 0)]

\* an optional argument: <<>> for None, <<x>> for the value x
None == <<>>
Some(x) == <<x>>

NoHistory == [dataset |-> "", date |-> None, field |-> None, limit |-> None,
              ok |-> TRUE, result |-> <<>>, at |-> -1]

\* no call in flight
Idle == [pc |-> "idle"]

\* no helper called directly, no orchestrator run finished
NoProbe == [op |-> "none"]
NoSummary == [op |-> "none"]

NoGate == [dataset |-> "", hours |-> 0, ok |-> TRUE, answer |-> FALSE]

----------------------------------------------------------------------------
(* Initial states: the dataset's table as earlier runs can have left it *)

Dates == { <<d[1], 0>> : d \in RawDates }

\* day 1 absent or holding any row, day 2 absent or holding one row
InitTables ==
    { [k \in { <<TestDataset, d>> : d \in S } |-> Entity(TestDataset,
          [date |-> k[2], value |-> IF k[2] = <<1, 0>> THEN v.value ELSE 0,
                          rate  |-> IF k[2] = <<1, 0>> THEN v.rate ELSE 0])] :
        S \in SUBSET Dates, v \in FieldValues }

\* nothing has run yet: no revision, no run metadata, no call
Fresh ==
    /\ ledger = EmptyTable
    /\ metadata = EmptyTable
    /\ now = 0
    /\ stamp = 0
    /\ data_df = <<>>
    /\ existing_data = EmptyTable
    /\ new_records = <<>>
    /\ updates = <<>>
    /\ revisions = <<>>
    /\ results = ZeroResults
    /\ log = <<>>
    /\ dataset_name = TestDataset
    /\ status = "none"
    /\ gate = NoGate
    /\ changes = EmptyTable
    /\ history = NoHistory
    /\ proc = [ds \in Datasets |-> Idle]
    /\ probe = NoProbe
    /\ summary = NoSummary

Init ==
    /\ store \in { [ds \in Datasets |-> IF ds = TestDataset THEN t ELSE EmptyTable] :
                     t \in InitTables }
    /\ Fresh

----------------------------------------------------------------------------
(* Actions *)

\* one smart_update(ds, df0, 'date', value_fields) call, start to return
Reconcile(ds, df0, flt) ==
    \E r \in { smart_update(store[ds], ledger, ds, df0, flt, stamp + 1) } :
        /\ store' = [store EXCEPT ![ds] = r.table]
        /\ ledger' = r.ledger
        /\ stamp' = stamp + 1 + flt.step * Len(r.revisions)
        /\ data_df' = r.data_df
        /\ existing_data' = r.existing_data
        /\ new_records' = r.new_records
        /\ updates' = r.updates
        /\ revisions' = r.revisions
        /\ results' = r.results
        /\ log' = Append(log, [op |-> "smart_update", calls |-> r.calls,
                                returned |-> r.results, raised |-> r.raised])
        /\ dataset_name' = ds
        /\ changes' = Observe(changes, TrackedChanges(store[ds], r.table))
        \* an answer read from the ledger before this call is out of date
        /\ history' = NoHistory
        /\ UNCHANGED <<metadata, now, status, gate, proc, probe, summary>>

\* a caller hands a freshly normalized batch to smart_update
SmartUpdate ==
    /\ runs = 0
    /\ \E df0 \in Batches :
         \E flt \in FaultPlans(store[TestDataset], TestDataset, df0) :
            Reconcile(TestDataset, df0, flt)

\* what the store does when it answers every call of smart_update(ds, df0)
NoFaultPlans(table, ds, df0) ==
    { flt \in FaultPlans(table, ds, df0) :
        /\ flt.create
        /\ flt.query
        /\ \A c \in DOMAIN flt.new : flt.new[c]
        /\ \A c \in DOMAIN flt.upd : flt.upd[c]
        /\ \A c \in DOMAIN flt.rev : flt.rev[c] }

\* the caller runs smart_update a second time with the DataFrame of the first
\* call, nothing else having written in between; the store answers every call
Rerun ==
    /\ runs = 1
    /\ \E flt \in NoFaultPlans(store[dataset_name], dataset_name, data_df) :
          Reconcile(dataset_name, data_df, flt)

Next == SmartUpdate \/ Rerun

Spec == Init /\ [][Next]_vars

----------------------------------------------------------------------------
(* The freshness gate on its own *)

FrequencyChoices == {1, DefaultFrequencyHours}

InitEmpty ==
    /\ Init
    /\ store = [ds \in Datasets |-> EmptyTable]

Tick ==
    /\ now < MaxClock
    /\ now' = now + 1
    /\ gate' = NoGate
    /\ UNCHANGED <<store, ledger, metadata, stamp, data_df, existing_data,
                   new_records, updates, revisions, results, log,
                   dataset_name, status, changes, history, proc, probe, summary>>

UpdateLastRun ==
    \E ok \in BOOLEAN :
        /\ metadata' = update_last_run(metadata, TestDataset, now, ok).table
        /\ gate' = NoGate
        /\ UNCHANGED <<store, ledger, now, stamp, data_df, existing_data,
                       new_records, updates, revisions, results, log,
                       dataset_name, status, changes, history, proc, probe, summary>>

ShouldUpdate ==
    \E h \in FrequencyChoices, ok \in BOOLEAN :
        /\ gate' = [dataset |-> TestDataset, hours |-> h, ok |-> ok,
                    answer |-> should_update(metadata, TestDataset, h, now, ok)]
        /\ UNCHANGED <<store, ledger, metadata, now, stamp, data_df,
                       existing_data, new_records, updates, revisions, results,
                       log, dataset_name, status, changes, history, proc, probe, summary>>

NextGate == Tick \/ UpdateLastRun \/ ShouldUpdate

SpecGate == InitEmpty /\ [][NextGate]_vars

----------------------------------------------------------------------------
(* Reading the ledger: get_revision_history (azure_data_tracker.py) *)

\* the entities of a table
Rev(t) == { t[k] : k \in DOMAIN t }

\* smart_update calls before the ledger is read
MaxLedgerRuns == 2

\* the entities the filter string selects: PartitionKey eq dataset, and
\* data_date, value_field where the argument is given
Filtered(entities, dataset, date, field) ==
    { e \in entities :
        /\ e.PartitionKey = dataset
        /\ (date # None => e.data_date = date[1])
        /\ (field # None => e.value_field = field[1]) }

RECURSIVE SortedNewestFirst(_)
\* sort_values('revision_date', ascending=False): every order the sort may
\* give to entries of equal revision_date
SortedNewestFirst(S) ==
    IF S = {} THEN { <<>> }
    ELSE UNION { { <<e>> \o rest : rest \in SortedNewestFirst(S \ {e}) } :
                   e \in { x \in S : \A y \in S :
                                        x.revision_date >= y.revision_date } }

\* if limit and len(df) > limit: df = df.head(limit)
Head_limit(rows, limit) ==
    IF limit # None /\ limit[1] # 0 /\ Len(rows) > limit[1]
    THEN SubSeq(rows, 1, limit[1]) ELSE rows

\* the columns kept, PartitionKey renamed to dataset
Columns(e) ==
    [dataset |-> e.PartitionKey, data_date |-> e.data_date,
     value_field |-> e.value_field, old_value |-> e.old_value,
     new_value |-> e.new_value, revision_date |-> e.revision_date]

\* every frame get_revision_history(dataset, date, field, limit) may return
get_revision_history(ledgerT, dataset, date, field, limit, ok) ==
    LET result == Filtered(Rev(query_entities(ledgerT, ok)), dataset, date, field)
    IN  IF result = {} THEN { <<>> }
        ELSE { [i \in DOMAIN Head_limit(rows, limit) |->
                    Columns(Head_limit(rows, limit)[i])] :
                 rows \in SortedNewestFirst(result) }

\* both datasets hold a row of day 1
InitSeeded ==
    /\ Fresh
    /\ store = [ds \in Datasets |->
                  (<<ds, <<1, 0>>>> :> Entity(ds, [date |-> <<1, 0>>,
                                                   value |-> 0, rate |-> 0]))]

\* a later release of day 1
LedgerFeed ==
    { <<[date |-> <<1, 0>>, value |-> v.value, rate |-> v.rate]>> :
        v \in { [value |-> 21, rate |-> 20], [value |-> 0, rate |-> 0] } }

Revise ==
    /\ runs < MaxLedgerRuns
    /\ \E ds \in Datasets, df0 \in LedgerFeed :
         \E flt \in NoFaultPlans(store[ds], ds, df0) :
            Reconcile(ds, df0, flt)

LimitChoices == { None, Some(0), Some(1), Some(2) }

GetRevisionHistory ==
    \E dataset \in Datasets,
       date \in { None, Some(<<1, 0>>), Some(<<2, 0>>) },
       field \in { None, Some("value") },
       limit \in LimitChoices,
       ok \in BOOLEAN :
        \* the ledger is read once after each call
        /\ history.at # runs
        /\ \E result \in get_revision_history(ledger, dataset, date, field,
                                              limit, ok) :
              history' = [dataset |-> dataset, date |-> date, field |-> field,
                          limit |-> limit, ok |-> ok, result |-> result,
                          at |-> runs]
        /\ UNCHANGED <<store, ledger, metadata, now, stamp, data_df,
                       existing_data, new_records, updates, revisions, results,
                       log, dataset_name, status, gate, changes, proc, probe, summary>>

NextLedger == Revise \/ GetRevisionHistory

SpecLedger == InitSeeded /\ [][NextLedger]_vars

----------------------------------------------------------------------------
(* Vocabulary of the properties *)

Range(seq) == { seq[i] : i \in DOMAIN seq }

DistinctDates(df) ==
    \A i, j \in DOMAIN df : i # j => df[i].date # df[j].date

AllOk(cs) == \A i \in DOMAIN cs : cs[i].ok

Failed(cs, op) == \E i \in DOMAIN cs : cs[i].op = op /\ ~cs[i].ok

Made(cs, op) == \E i \in DOMAIN cs : cs[i].op = op

\* the last operation returned z (it did not leave by an exception)
Returned(z) == runs > 0 /\ ~log[Len(log)].raised /\ results = z

\* the last operation was a smart_update call that got past table creation
Classified == runs > 0 /\ Made(calls, "query_entities")

\* ledger entries that record date.field going from old to new
Recorded(c) ==
    { r \in Rev(ledger) : /\ r.data_date = c.date /\ r.value_field = c.field
                          /\ r.old_value = c.old  /\ r.new_value = c.new }

RevisionKeys == { [date |-> r.data_date, field |-> r.value_field,
                   old |-> r.old_value, new |-> r.new_value] : r \in Rev(ledger) }

----------------------------------------------------------------------------
(* C1  Idempotence *)

\* C1 as claimed: whatever the stored state and the non-empty batch, the
\* second of two successive calls with the same batch returns all zeros
\* (here with the store answering every call of both).
C1_SecondCallReturnsZero ==
    (runs = 2 /\ data_df # <<>> /\ AllOk(log[1].calls) /\ AllOk(log[2].calls))
        => Returned(ZeroResults)

\* C1 amended: the same, for a batch whose dates all parse and normalize to
\* pairwise distinct dates, with every storage call of both calls succeeding.
C1_IdempotentOnDistinctDates ==
    (runs = 2 /\ data_df # <<>> /\ ~to_datetime_raises(data_df)
        /\ DistinctDates(data_df)
        /\ AllOk(log[1].calls) /\ AllOk(log[2].calls))
        => Returned(ZeroResults)

\* a second call, all zeros, after a first call that inserted and updated
C1_Witness ==
    /\ runs = 2 /\ DistinctDates(data_df)
    /\ AllOk(log[1].calls) /\ AllOk(log[2].calls)
    /\ log[1].returned.new = 1 /\ log[1].returned.updated = 1
    /\ log[1].returned.revisions = 2
    /\ results = ZeroResults

----------------------------------------------------------------------------
(* C2  Audit completeness *)

\* C2: every change beyond the tolerance that a call made to a non-null
\* tracked field of an existing row has a ledger entry for that date and
\* field carrying the value before and the value after.
C2_AuditComplete ==
    \A c \in DOMAIN changes :
        (c.old # NaN /\ c.new # NaN /\ Abs(c.new - c.old) > Tolerance)
            => Recorded(c) # {}

----------------------------------------------------------------------------
(* C3  At most one revision per change *)

\* C3: a change of date.field from old to new is recorded by at most one
\* ledger entry, also when a write group failed and the same batch is
\* run again (stated for batches of pairwise distinct dates).
C3_AtMostOneRevisionPerChange ==
    (runs > 0 /\ DistinctDates(data_df)) =>
        \A c \in RevisionKeys :
            Cardinality(Recorded(c)) <=
                (IF c \in DOMAIN changes /\ changes[c] > 1 THEN changes[c] ELSE 1)

----------------------------------------------------------------------------
(* C4  At most one revision per field per run *)

OnePerDateField(revs) ==
    \A i, j \in DOMAIN revs :
        (i # j) => ~(/\ revs[i].data_date = revs[j].data_date
                     /\ revs[i].value_field = revs[j].value_field)

\* C4 as claimed: for any stored state and any batch, one call emits at most
\* one revision for a (date, field).
C4_AtMostOnePerFieldAnyBatch == OnePerDateField(revisions)

\* C4 amended: for any stored state and any batch whose normalized dates are
\* pairwise distinct, one call emits at most one revision for a (date, field).
C4_AtMostOnePerFieldDistinctDates ==
    DistinctDates(data_df) => OnePerDateField(revisions)

\* two rows of distinct dates, one with both tracked fields revised
C4_Witness ==
    /\ runs > 0 /\ DistinctDates(data_df) /\ Len(data_df) = 2
    /\ Len(revisions) >= 3

----------------------------------------------------------------------------
(* C5  Fetch failure *)

\* C5: when the query for the current rows fails, the call returns all
\* zeros and issues no record write and no ledger write.
C5_FetchFailureAborts ==
    (runs > 0 /\ Failed(calls, "query_entities")) =>
        (results = ZeroResults /\ ~Made(calls, "batch_upsert"))

----------------------------------------------------------------------------
(* C6  Table-creation failure *)

\* C6: when create_table reports failure, the call returns all zeros, makes
\* no further gateway call, and leaves the rows and the ledger as they were.
C6_CreateFailureAborts ==
    [][ (log' # log /\ Failed(calls', "create_table")) =>
            (/\ results' = ZeroResults
             /\ Len(calls') = 1
             /\ store' = store
             /\ ledger' = ledger) ]_vars

\* a failed create_table for a batch that has a new row to insert
C6_Witness ==
    /\ runs = 1 /\ Failed(calls, "create_table")
    /\ \E i \in DOMAIN data_df :
          <<dataset_name, data_df[i].date>> \notin DOMAIN store[dataset_name]

----------------------------------------------------------------------------
(* C9  Tolerance boundary *)

Compared(i, f) ==
    /\ data_df[i].date \in DOMAIN existing_data
    /\ data_df[i][f] # NaN
    /\ existing_data[data_df[i].date][f] # NaN

Delta(i, f) == Abs(data_df[i][f] - existing_data[data_df[i].date][f])

\* revisions of the last call for the date of row i, field f and row i's value
RevisionsOf(i, f) ==
    { k \in DOMAIN revisions :
        /\ revisions[k].data_date = data_df[i].date
        /\ revisions[k].value_field = f
        /\ revisions[k].new_value = data_df[i][f] }

\* rows of the batch with the date of row i and its value of f
RowsLike(i, f) ==
    { k \in DOMAIN data_df : /\ data_df[k].date = data_df[i].date
                             /\ data_df[k][f] = data_df[i][f] }

InUpdates(i) ==
    \E k \in DOMAIN updates :
        /\ updates[k].RowKey = data_df[i].date
        /\ \A f \in Range(value_fields) : updates[k][f] = data_df[i][f]

----------------------------------------------------------------------------
(* C10  New vs. changed partition *)

\* C10: a row whose normalized date is absent from the rows read at the start
\* of the call is in the new group, never in the updates, and has no
\* revision, whatever its values.
C10_AbsentDateIsNew ==
    Classified =>
      \A i \in DOMAIN data_df :
        data_df[i].date \notin DOMAIN existing_data =>
          /\ Entity(dataset_name, data_df[i]) \in Range(new_records)
          /\ \A k \in DOMAIN updates : updates[k].RowKey # data_df[i].date
          /\ \A k \in DOMAIN revisions : revisions[k].data_date # data_df[i].date

\* a call with one row of an absent date beside a changed row of a stored date
C10_Witness ==
    /\ Classified /\ ~Failed(calls, "query_entities")
    /\ Len(new_records) = 1 /\ Len(updates) = 1 /\ Len(revisions) >= 1
    /\ \E i \in DOMAIN data_df : data_df[i].date \notin DOMAIN existing_data

----------------------------------------------------------------------------
(* The scraper run of the application (azure_fred_scraper.py) *)

\* what the fetch and process steps hand to insert_data
Feed ==
    { <<[date |-> <<1, 12>>, value |-> v, rate |-> 0]>> : v \in {0, 21} }

\* every way one run_scraper(name) can go: the scraper's own create_table
\* (table), the fetch and process steps (fetch), the frame they produce, the
\* metadata lookup of should_update (lookup), the calls of smart_update (flt)
\* and the write of update_last_run (write)
NoPlan == [create |-> TRUE, query |-> TRUE, new |-> <<>>, upd |-> <<>>,
           rev |-> <<>>, step |-> 1]

ScraperPlans(name) ==
    { [table |-> t, fetch |-> FALSE, df |-> <<>>, lookup |-> TRUE,
       flt |-> NoPlan, write |-> TRUE] : t \in BOOLEAN }
    \cup
    UNION { { [table |-> t, fetch |-> TRUE, df |-> df, lookup |-> l,
               flt |-> f, write |-> w] :
                t \in BOOLEAN,
                l \in IF <<"dataset", name>> \in DOMAIN metadata
                      THEN BOOLEAN ELSE {TRUE},
                f \in FaultPlans(store[name], name, df),
                w \in BOOLEAN }
          : df \in Feed }

\* run_scraper(scraper, name, config), the store and the upstream source
\* answering as the plan says
run_scraper(name, plan) ==
        LET c0 == CallBy("run_scraper", "create_table", name, plan.table)
            \* download_excel, or the API call inside process_data
            cf == CallBy("run_scraper", "fetch", "upstream", plan.fetch)
            c1 == CallBy("should_update", "get_entity", "scrapermetadata",
                         plan.lookup)
            c2 == CallBy("update_last_run", "upsert_entity", "scrapermetadata",
                         plan.write)
            go == should_update(metadata, name, DefaultFrequencyHours, now,
                                plan.lookup)
            quiet == UNCHANGED <<store, ledger, metadata, stamp, data_df,
                                 existing_data, new_records, updates,
                                 revisions, results, changes>>
        IN  /\ dataset_name' = name
            /\ gate' = NoGate
            /\ UNCHANGED <<now, history, proc, probe>>
            /\ IF ~plan.fetch THEN
                   /\ status' = "failed"
                   /\ log' = Append(log, [op |-> "run_scraper", calls |-> <<c0, cf>>,
                                          returned |-> ZeroResults,
                                          raised |-> FALSE])
                   /\ quiet
               ELSE IF ~go THEN
                   /\ status' = "no_update_needed"
                   /\ log' = Append(log, [op |-> "run_scraper",
                                          calls |-> <<c0, cf, c1>>,
                                          returned |-> ZeroResults,
                                          raised |-> FALSE])
                   /\ quiet
               ELSE
                   \E r \in { smart_update(store[name], ledger, name, plan.df,
                                            plan.flt, stamp + 1) } :
                       /\ store' = [store EXCEPT ![name] = r.table]
                       /\ ledger' = r.ledger
                       \* an exception of insert_data skips update_last_run
                       /\ metadata' = IF r.raised THEN metadata
                                      ELSE update_last_run(metadata, name, now,
                                                           plan.write).table
                       /\ stamp' = stamp + 1 + plan.flt.step * Len(r.revisions)
                       /\ data_df' = r.data_df
                       /\ existing_data' = r.existing_data
                       /\ new_records' = r.new_records
                       /\ updates' = r.updates
                       /\ revisions' = r.revisions
                       /\ results' = r.results
                       /\ changes' = Observe(changes,
                                             TrackedChanges(store[name], r.table))
                       /\ status' = IF r.raised THEN "failed" ELSE "updated"
                       /\ log' = Append(log, [op |-> "run_scraper",
                                              calls |-> <<c0, cf, c1>> \o r.calls
                                                  \o (IF r.raised THEN <<>>
                                                      ELSE <<c2>>),
                                              returned |-> r.results,
                                              raised |-> FALSE])

RunScraper ==
    /\ runs < MaxScraperRuns
    /\ \E name \in {TestDataset} : \E plan \in ScraperPlans(name) :
         run_scraper(name, plan)
    /\ UNCHANGED summary

\* a refresh period passes between two runs
Wait ==
    /\ now + DefaultFrequencyHours <= MaxClock
    /\ now' = now + DefaultFrequencyHours
    /\ gate' = NoGate
    /\ UNCHANGED <<store, ledger, metadata, stamp, data_df, existing_data,
                   new_records, updates, revisions, results, log,
                   dataset_name, status, changes, history, proc, probe, summary>>

NextOrch == RunScraper \/ Wait

SpecOrch == InitEmpty /\ [][NextOrch]_vars

----------------------------------------------------------------------------
(* C7  last_run is recorded only after a reconcile that did not abort *)

FailedBy(cs, by, op) ==
    \E i \in DOMAIN cs : cs[i].by = by /\ cs[i].op = op /\ ~cs[i].ok

WroteLastRun(cs) ==
    \E i \in DOMAIN cs :
        cs[i].by = "update_last_run" /\ cs[i].op = "upsert_entity" /\ cs[i].ok

Aborted(cs) ==
    \/ FailedBy(cs, "smart_update", "create_table")
    \/ FailedBy(cs, "smart_update", "query_entities")

\* C7: in every scraper run, last_run of the dataset is written only if the
\* smart_update of that run met neither a table-creation nor a fetch failure.
C7_LastRunOnlyAfterSuccess ==
    (log # <<>> /\ log[Len(log)].op = "run_scraper")
        => (WroteLastRun(calls) => ~Aborted(calls))

----------------------------------------------------------------------------
(* C8  Freshness gate threshold *)

Asked == gate # NoGate /\ gate.ok

Recorded_last_run(name) == parse(metadata[<<"dataset", name>>].last_run)

\* C8 as claimed: the answer is true iff no last_run is recorded or more
\* than h hours have passed since it; exactly h hours or fewer give false.
C8_TrueIffElapsedExceeds ==
    Asked =>
        (gate.answer <=>
            (\/ <<"dataset", gate.dataset>> \notin DOMAIN metadata
             \/ now - Recorded_last_run(gate.dataset) > gate.hours))

\* C8 amended: with the metadata lookup succeeding, the answer is true iff no
\* last_run is recorded or at least h hours have passed since it; fewer than
\* h hours give false (h = 24: 23 hours false, 24 and 25 hours true, no prior
\* run true, a run recorded just now false).
C8_TrueIffElapsedAtLeast ==
    Asked =>
        (gate.answer <=>
            (\/ <<"dataset", gate.dataset>> \notin DOMAIN metadata
             \/ now - Recorded_last_run(gate.dataset) >= gate.hours))

\* asked with the default 24 hours exactly 24 hours after the recorded run
C8_Witness ==
    /\ Asked /\ gate.hours = DefaultFrequencyHours
    /\ <<"dataset", gate.dataset>> \in DOMAIN metadata
    /\ now - Recorded_last_run(gate.dataset) = DefaultFrequencyHours
    /\ gate.answer

----------------------------------------------------------------------------
(* C11  Null-safety *)

NullOnEitherSide(i, f) ==
    /\ data_df[i].date \in DOMAIN existing_data
    /\ (data_df[i][f] = NaN \/ existing_data[data_df[i].date][f] = NaN)

\* no other tracked field of row i differs from the stored row beyond the
\* tolerance
NoOtherChange(i, f) ==
    \A g \in Range(value_fields) :
        (g # f /\ Compared(i, g)) => Delta(i, g) <= Tolerance

\* C11: for a row of an existing date, a tracked field that is null in the
\* stored row or in the incoming row yields no revision for that row and
\* field, does not by itself put the row among the updates, and the call
\* still completes and returns its counts.
C11_NullFieldExcluded ==
    Classified =>
      \A i \in DOMAIN data_df : \A f \in Range(value_fields) :
        NullOnEitherSide(i, f) =>
          /\ RevisionsOf(i, f) = {}
          /\ (NoOtherChange(i, f) => ~InUpdates(i))
          /\ Returned(results)

\* a stored null meets an incoming number, and a stored number an incoming
\* null, and the call emits nothing
C11_Witness ==
    /\ Classified /\ ~Failed(calls, "query_entities") /\ DistinctDates(data_df)
    /\ \E i \in DOMAIN data_df :
          /\ data_df[i].date \in DOMAIN existing_data
          /\ existing_data[data_df[i].date].value = NaN
          /\ data_df[i].value = 21
    /\ \E j \in DOMAIN data_df :
          /\ data_df[j].date \in DOMAIN existing_data
          /\ existing_data[data_df[j].date].value = 0
          /\ data_df[j].value = NaN
    /\ revisions = <<>> /\ updates = <<>>

----------------------------------------------------------------------------
(* C12  Returned counts on success *)

WritesOk(cs) == \A i \in DOMAIN cs : cs[i].op = "batch_upsert" => cs[i].ok

AbsentRows == { i \in DOMAIN data_df : data_df[i].date \notin DOMAIN existing_data }

Differs(i, f) == Compared(i, f) /\ Delta(i, f) > Tolerance

DifferingRows == { i \in DOMAIN data_df : \E f \in Range(value_fields) : Differs(i, f) }

DifferingPairs ==
    { p \in (DOMAIN data_df) \X Range(value_fields) : Differs(p[1], p[2]) }

\* C12: when every batched write of a call succeeds and the incoming dates
\* are distinct, new is the number of rows whose date is absent from the rows
\* read, updated the number of rows of a stored date with a tracked field
\* beyond the tolerance, and revisions the number of such (row, field) pairs.
C12_CountsOnSuccess ==
    (Classified /\ WritesOk(calls) /\ DistinctDates(data_df)) =>
        Returned([new       |-> Cardinality(AbsentRows),
                  updated   |-> Cardinality(DifferingRows),
                  revisions |-> Cardinality(DifferingPairs)])

\* two stored rows resubmitted with one changed value each
C12_Witness ==
    /\ Classified /\ AllOk(calls) /\ DistinctDates(data_df)
    /\ Cardinality(DifferingPairs) = 2
    /\ results = [new |-> 0, updated |-> 2, revisions |-> 2]

----------------------------------------------------------------------------
(* C13  Conservative undercount *)

\* where the batch_upsert of each write group stands among the calls of the
\* last smart_update: after create_table and query_entities, in the order
\* new records, updates, revisions, empty groups left out
NewCall == 3
UpdCall == IF new_records = <<>> THEN 3 ELSE 4
RevCall == Len(calls)

Present(t, entity) == Key(entity) \in DOMAIN t /\ t[Key(entity)] = entity

\* the rows of the store that a write group of the last call accounts for
RowsPresent(t, group) ==
    { Key(group[k]) : k \in { j \in DOMAIN group : Present(t, group[j]) } }

NoOvercount ==
    /\ results.new <= Cardinality(RowsPresent(store[dataset_name], new_records))
    /\ results.updated <= Cardinality(RowsPresent(store[dataset_name], updates))
    /\ results.revisions <= Cardinality(RowsPresent(ledger, revisions))

FailedGroupsCountZero ==
    /\ (new_records # <<>> /\ ~calls[NewCall].ok) => results.new = 0
    /\ (updates # <<>> /\ ~calls[UpdCall].ok) => results.updated = 0
    /\ (revisions # <<>> /\ ~calls[RevCall].ok) => results.revisions = 0

\* C13 as claimed: for any batch, no returned count exceeds the number of
\* rows of its group that the store holds after the call, and a group whose
\* write reported failure counts 0.
C13_NeverOvercountsAnyBatch ==
    Classified => (NoOvercount /\ FailedGroupsCountZero)

\* C13 amended: the same for a batch whose normalized dates are pairwise
\* distinct.
C13_NeverOvercountsDistinctDates ==
    (Classified /\ DistinctDates(data_df)) =>
        (NoOvercount /\ FailedGroupsCountZero)

\* the ledger write committed its first chunk, failed on its second, and the
\* call reports no revision
C13_Witness ==
    /\ Classified /\ DistinctDates(data_df)
    /\ Len(revisions) > batch_size
    /\ ~calls[RevCall].ok
    /\ RowsPresent(ledger, revisions) # {}
    /\ results.revisions = 0

----------------------------------------------------------------------------
(* C14  Write-group independence *)

WriteCalls(cs) == { i \in DOMAIN cs : cs[i].op = "batch_upsert" }

NonEmptyGroups ==
    (IF new_records # <<>> THEN 1 ELSE 0) + (IF updates # <<>> THEN 1 ELSE 0)
        + (IF revisions # <<>> THEN 1 ELSE 0)

\* the count a group earns from its own write alone
OwnCount(group, c) == IF group # <<>> /\ calls[c].ok THEN Len(group) ELSE 0

\* C14: a call that got to classify its rows issues one batch_upsert for
\* every non-empty write group, whatever the other writes reported, and each
\* returned count is that of its own group's write alone.
C14_GroupsIndependent ==
    Classified =>
        /\ Cardinality(WriteCalls(calls)) = NonEmptyGroups
        /\ revisions # <<>> => calls[RevCall].table = "data_revisions"
        /\ Returned([new       |-> OwnCount(new_records, NewCall),
                     updated   |-> OwnCount(updates, UpdCall),
                     revisions |-> OwnCount(revisions, RevCall)])

\* the write of the new records failed, and the updates and the revisions
\* were written and counted all the same
C14_Witness ==
    /\ Classified
    /\ new_records # <<>> /\ ~calls[NewCall].ok
    /\ updates # <<>> /\ calls[UpdCall].ok
    /\ revisions # <<>> /\ calls[RevCall].ok
    /\ results = [new |-> 0, updated |-> 1, revisions |-> Len(revisions)]

----------------------------------------------------------------------------
(* C15  Empty input *)

\* C15: a smart_update call with an empty batch returns all zeros and makes
\* no storage call: no table creation, no query, no write; the tables are as
\* they were.
C15_EmptyIsNoOp ==
    [][ (log' # log /\ log'[Len(log')].op = "smart_update" /\ data_df' = <<>>) =>
            (/\ ~log'[Len(log')].raised
             /\ results' = ZeroResults
             /\ calls' = <<>>
             /\ store' = store
             /\ ledger' = ledger
             /\ metadata' = metadata) ]_vars

\* an empty batch met a table that holds rows, twice
C15_Witness ==
    /\ runs = 2 /\ data_df = <<>> /\ calls = <<>>
    /\ store[dataset_name] # EmptyTable
    /\ Returned(ZeroResults)

----------------------------------------------------------------------------
(* C16  The ledger is append-only *)

\* every entry of the ledger is still there, as it was
LedgerKept ==
    \A k \in DOMAIN ledger : k \in DOMAIN ledger' /\ ledger'[k] = ledger[k]

\* the revisions a call emits are keyed apart from every earlier entry, and
\* apart from each other wherever they are of different dates or fields
FreshKeys ==
    /\ \A i \in DOMAIN revisions' : Key(revisions'[i]) \notin DOMAIN ledger
    /\ \A i, j \in DOMAIN revisions' :
          (\/ revisions'[i].data_date # revisions'[j].data_date
           \/ revisions'[i].value_field # revisions'[j].value_field)
              => Key(revisions'[i]) # Key(revisions'[j])

\* C16: no call overwrites or deletes a ledger entry: every entry stays with
\* its contents, the revisions of a call for different fields of one date
\* have different keys, and a later call revising the same (date, field)
\* writes under keys no earlier entry has.
C16_LedgerAppendOnly ==
    [][ /\ LedgerKept
        /\ (log' # log /\ log'[Len(log')].op = "smart_update") => FreshKeys ]_vars

\* two calls have each left an entry for the same date and field
C16_Witness ==
    /\ runs = 2
    /\ \E a, b \in Rev(ledger) :
          /\ a.data_date = b.data_date /\ a.value_field = b.value_field
          /\ a.revision_date # b.revision_date
    /\ \E a, b \in Rev(ledger) :
          /\ a.data_date = b.data_date /\ a.value_field # b.value_field
          /\ a.revision_date = b.revision_date

----------------------------------------------------------------------------
(* C17  Ledger query result *)

\* the answer in history was given to the ledger as it stands
HistoryAsked == history.at = runs /\ history.ok

Take(rows, n) == SubSeq(rows, 1, Min(n, Len(rows)))

\* C17: the answer holds exactly the ledger entries of the dataset that match
\* every filter given, newest first, cut to the first limit entries when a
\* limit is given, and is an empty frame when nothing matches.
C17_HistoryExact ==
    HistoryAsked =>
        \E rows \in SortedNewestFirst(
                      { Columns(e) : e \in { x \in Rev(ledger) :
                          /\ x.dataset = history.dataset
                          /\ (history.date # None => x.data_date = history.date[1])
                          /\ (history.field # None
                                => x.value_field = history.field[1]) } }) :
            history.result = IF history.limit = None THEN rows
                             ELSE Take(rows, history.limit[1])

----------------------------------------------------------------------------
(* C18  Data-shape failures degrade per record *)

\* row i of the batch of the last call has a date that parses
GoodRow(i) == data_df[i].date # Unparsable

\* C18: when a row of the batch has an unparsable date, the call does not
\* end in an exception: it goes on to read the table and classifies every
\* other row as new or as a row of a stored date.
C18_BadDateSkipsOnlyThatRecord ==
    (runs > 0 /\ log[Len(log)].op = "smart_update"
        /\ to_datetime_raises(data_df)) =>
        /\ ~log[Len(log)].raised
        /\ Made(calls, "query_entities")
        /\ \A i \in DOMAIN data_df :
              GoodRow(i) =>
                \/ strftime(data_df[i].date) \in DOMAIN existing_data
                \/ \E k \in DOMAIN new_records :
                      new_records[k].RowKey = strftime(data_df[i].date)

----------------------------------------------------------------------------
(* C19  Record uniqueness and permanence *)

\* the calendar day of a date
Day(d) == d[1]

\* a table holds at most one record of a calendar day, under the key made
\* of its dataset and its date
OnePerDate(ds) ==
    \A k1, k2 \in DOMAIN store[ds] :
        /\ k1 = <<ds, store[ds][k1].date>>
        /\ Day(store[ds][k1].date) = Day(store[ds][k2].date) => k1 = k2

\* no stored date is lost in a step
DatesKept(ds) == DOMAIN store[ds] \subseteq DOMAIN store'[ds]

\* C19: after any calls, the records table of a dataset holds at most one
\* record per normalized date, and no call removes a stored date.
C19_UniqueAndPermanent ==
    /\ [](\A ds \in Datasets : OnePerDate(ds))
    /\ [][\A ds \in Datasets : DatesKept(ds)]_vars

\* a batch with two rows of one new date, both written, left one record
\* beside the one the table held
C19_Witness ==
    /\ runs > 0 /\ AllOk(calls) /\ Len(new_records) = 2
    /\ ~DistinctDates(data_df)
    /\ Cardinality(DOMAIN store[dataset_name]) = 2

----------------------------------------------------------------------------
(* smart_update calls of two datasets whose storage calls interleave *)

\* the rows the two callers hand over: a revised day 1 and a new day 2
ParRows == { [date |-> <<1, 12>>, value |-> 21, rate |-> 20],
             [date |-> <<2, 0>>, value |-> 0, rate |-> 0] }

ParFeed == { <<a>> : a \in ParRows } \cup { <<a, b>> : a \in ParRows, b \in ParRows }

\* the list the call is writing at its position
Pending(p) ==
    IF p.pc = "new" THEN p.new_records
    ELSE IF p.pc = "upd" THEN p.updates
    ELSE IF p.pc = "rev" THEN p.revisions
    ELSE <<>>

\* whether the chunks of a finished batch_upsert were all committed
AllCommitted(out) == \A c \in DOMAIN out : out[c]

RECURSIVE Settle(_)
\* the control flow between two storage calls: a finished or empty group sets
\* its count and hands over to the next group, the last one to the return
Settle(p) ==
    IF p.pc \notin {"new", "upd", "rev"} \/ p.c <= NChunks(Pending(p)) THEN p
    ELSE LET list == Pending(p)
             n    == IF list # <<>>
                     THEN Count(AllCommitted(p.flt[p.pc]), list) ELSE 0
         IN  Settle([p EXCEPT
                 !.results = IF p.pc = "new" THEN [@ EXCEPT !.new = n]
                             ELSE IF p.pc = "upd" THEN [@ EXCEPT !.updated = n]
                             ELSE [@ EXCEPT !.revisions = n],
                 !.pc = IF p.pc = "new" THEN "upd"
                        ELSE IF p.pc = "upd" THEN "rev" ELSE "done",
                 !.c = 1])

\* another dataset's call is between its first and its last storage call
OtherInFlight(ds) ==
    \E o \in Datasets \ {ds} : proc[o].pc \notin {"idle", "done"}

\* smart_update(ds, df0) entered: the dates are normalized (line 47)
StartRun(ds) ==
    /\ proc[ds].pc = "idle"
    /\ \E df0 \in ParFeed :
         proc' = [proc EXCEPT ![ds] =
                    [pc |-> "create", df0 |-> df0, data_df |-> NormalizeDates(df0),
                     table0 |-> store[ds], ts |-> 0,
                     flt |-> [create |-> TRUE, query |-> TRUE, new |-> <<>>,
                              upd |-> <<>>, rev |-> <<>>, step |-> 1],
                     existing_data |-> EmptyTable, new_records |-> <<>>,
                     updates |-> <<>>, revisions |-> <<>>, c |-> 1,
                     results |-> ZeroResults, mixed |-> FALSE]]
    /\ UNCHANGED <<store, ledger, metadata, now, stamp, data_df, existing_data,
                   new_records, updates, revisions, results, log, dataset_name,
                   status, gate, changes, history, probe, summary>>

\* azure_connector.create_table(dataset_name)
CreateTable(ds) ==
    /\ proc[ds].pc = "create"
    /\ \E ok \in BOOLEAN :
         proc' = [proc EXCEPT ![ds] =
                    [@ EXCEPT !.flt.create = ok,
                              !.pc = IF create_table(ok) THEN "query" ELSE "done",
                              !.mixed = @ \/ OtherInFlight(ds)]]
    /\ UNCHANGED <<store, ledger, metadata, now, stamp, data_df, existing_data,
                   new_records, updates, revisions, results, log, dataset_name,
                   status, gate, changes, history, probe, summary>>

\* azure_connector.query_entities(dataset_name) and the classification loop;
\* the clock may not have moved since another call read it
QueryEntities(ds) ==
    /\ proc[ds].pc = "query"
    /\ \E ok \in BOOLEAN, ts \in {stamp, stamp + 1}, s \in {0, 1} :
         LET p        == proc[ds]
             existing == ExistingData(query_entities(store[ds], ok))
             revs     == CollectRevisions(ds, p.data_df, existing, ts, s)
         IN  /\ s = 1 \/ Len(revs) >= 2
             /\ stamp' = ts
             /\ proc' = [proc EXCEPT ![ds] = Settle(
                    [p EXCEPT !.flt.query = ok, !.flt.step = s, !.ts = ts,
                              !.existing_data = existing,
                              !.new_records = NewRecords(ds, p.data_df, existing),
                              !.updates = Updates(ds, p.data_df, existing),
                              !.revisions = revs,
                              !.pc = "new", !.c = 1,
                              !.mixed = @ \/ OtherInFlight(ds)])]
    /\ UNCHANGED <<store, ledger, metadata, now, data_df, existing_data,
                   new_records, updates, revisions, results, log, dataset_name,
                   status, gate, changes, history, probe, summary>>

\* one submit_transaction of batch_upsert: a chunk of the dataset's table or
\* of the ledger, committed whole or not at all
SubmitChunk(ds) ==
    /\ proc[ds].pc \in {"new", "upd", "rev"}
    /\ \E ok \in BOOLEAN :
         LET p     == proc[ds]
             chunk == Chunk(Pending(p), p.c)
         IN  /\ IF p.pc = "rev"
                THEN /\ ledger' = IF ok THEN UpsertAll(ledger, chunk) ELSE ledger
                     /\ UNCHANGED store
                ELSE /\ store' = [store EXCEPT ![ds] =
                                    IF ok THEN UpsertAll(@, chunk) ELSE @]
                     /\ UNCHANGED ledger
             /\ proc' = [proc EXCEPT ![ds] = Settle(
                    [p EXCEPT !.flt[p.pc] = Append(@, ok), !.c = @ + 1,
                              !.mixed = @ \/ OtherInFlight(ds)])]
    /\ UNCHANGED <<metadata, now, stamp, data_df, existing_data, new_records,
                   updates, revisions, results, log, dataset_name, status, gate,
                   changes, history, probe, summary>>

NextPar ==
    \E ds \in Datasets :
        \/ StartRun(ds)
        \/ CreateTable(ds)
        \/ QueryEntities(ds)
        \/ SubmitChunk(ds)

SpecPar == InitSeeded /\ [][NextPar]_vars

----------------------------------------------------------------------------
(* C20  Independence of different datasets *)

AllDone == \A ds \in Datasets : proc[ds].pc = "done"

\* the call of dataset first and then the call of dataset second, each run
\* as a whole with the batch, the clock reading and the store's answers of
\* the interleaved run
OneAfterTheOther(first, second) ==
    LET a  == proc[first]
        b  == proc[second]
        rA == smart_update(a.table0, EmptyTable, first, a.df0, a.flt, a.ts)
        rB == smart_update(b.table0, rA.ledger, second, b.df0, b.flt, b.ts)
    IN  [store   |-> (first :> rA.table) @@ (second :> rB.table),
         ledger  |-> rB.ledger,
         results |-> (first :> rA.results) @@ (second :> rB.results)]

\* what the interleaved calls left and returned
Interleaved ==
    [store   |-> store,
     ledger  |-> ledger,
     results |-> [ds \in Datasets |-> proc[ds].results]]

\* the ledger entries of a dataset
EntriesOf(t, ds) == { e \in Rev(t) : e.dataset = ds }

\* a step of the call of ds leaves the records, the revisions and the run
\* metadata of every other dataset as they were
OthersUntouched(ds) ==
    /\ metadata' = metadata
    /\ \A o \in Datasets \ {ds} :
        /\ store'[o] = store[o]
        /\ EntriesOf(ledger', o) = EntriesOf(ledger, o)

\* C20: two smart_update calls for different datasets whose storage calls
\* interleave leave the records, the ledger entries and the counts of running
\* them one after the other, and no step of one dataset's call touches the
\* records, the revisions or the run metadata of the other.
C20_DatasetsIndependent ==
    /\ [](AllDone => \A first, second \in Datasets :
              first # second => Interleaved = OneAfterTheOther(first, second))
    /\ [][\A ds \in Datasets :
              proc'[ds] # proc[ds] => OthersUntouched(ds)]_vars

\* both calls ran among each other's storage calls, read the same clock
\* value and recorded a revision of the same date and field
C20_Witness ==
    /\ AllDone
    /\ \A ds \in Datasets :
        /\ proc[ds].mixed
        /\ proc[ds].results.revisions > 0
        /\ proc[ds].ts = 1

----------------------------------------------------------------------------
(* FREDScraper._adjust_quarterly_date (fred_scraper.py) *)

\* the first year of the dates tried, and how many years are tried
FirstYear == 2024
NYears == 3

\* a calendar date <<year, month, day>>; pd.Timestamp(year, month, day)
Timestamp(year, month, day) == <<year, month, day>>

QuarterDates ==
    { Timestamp(y, m, d) : y \in FirstYear..(FirstYear + NYears - 1),
                           m \in 1..12, d \in {1, 15, 28} }

_adjust_quarterly_date(date) ==
    LET quarter == (date[2] - 1) \div 3 + 1
    IN  IF quarter = 1 THEN Timestamp(date[1], 4, 1)
        ELSE IF quarter = 2 THEN Timestamp(date[1], 7, 1)
        ELSE IF quarter = 3 THEN Timestamp(date[1], 10, 1)
        ELSE Timestamp(date[1] + 1, 1, 1)

\* df['Date'].apply(self._adjust_quarterly_date), one date at a time
AdjustQuarterlyDate ==
    /\ \E date \in QuarterDates :
         probe' = [op |-> "_adjust_quarterly_date", date |-> date,
                   result |-> _adjust_quarterly_date(date)]
    /\ UNCHANGED <<store, ledger, metadata, now, stamp, data_df, existing_data,
                   new_records, updates, revisions, results, log, dataset_name,
                   status, gate, changes, history, proc, summary>>

NextQuarter == AdjustQuarterlyDate

SpecQuarter == InitEmpty /\ [][NextQuarter]_vars

----------------------------------------------------------------------------
(* C21  Quarterly date adjustment *)

\* the first day of a quarter
QuarterStart(date) == date[2] \in {1, 4, 7, 10} /\ date[3] = 1

\* the last day of the quarter a date lies in
QuarterEnd(date) ==
    LET quarter == (date[2] - 1) \div 3 + 1
    IN  <<date[1], 3 * quarter, IF quarter \in {1, 4} THEN 31 ELSE 30>>

\* C21: _adjust_quarterly_date maps every first day of a quarter to the last
\* day of that quarter, in the same year.
C21_QuarterStartToQuarterEnd ==
    (probe.op = "_adjust_quarterly_date" /\ QuarterStart(probe.date))
        => probe.result = QuarterEnd(probe.date)

----------------------------------------------------------------------------
(* batch_upsert called on its own (azure_connector.py) *)

\* the longest list handed to batch_upsert
MaxEntities == 5

BatchEntities ==
    UNION { [1..n -> { Entity(TestDataset, [date |-> d, value |-> 0, rate |-> 0]) :
                         d \in Dates }] : n \in 0..MaxEntities }

\* batch_upsert(table_name, entities), the store answering chunk c with out[c]
BatchUpsert ==
    /\ \E entities \in BatchEntities :
         \E out \in [1..NChunks(entities) -> BOOLEAN] :
            \E r \in { batch_upsert(store[TestDataset], entities, out) } :
                /\ store' = [store EXCEPT ![TestDataset] = r.table]
                /\ probe' = [op |-> "batch_upsert", entities |-> entities,
                             out |-> out, before |-> store[TestDataset],
                             after |-> r.table, success |-> r.success]
    /\ UNCHANGED <<ledger, metadata, now, stamp, data_df, existing_data,
                   new_records, updates, revisions, results, log, dataset_name,
                   status, gate, changes, history, proc, summary>>

NextBatch == BatchUpsert

SpecBatch == InitEmpty /\ [][NextBatch]_vars

----------------------------------------------------------------------------
(* C22  Chunked batch write *)

\* entity i of the list lies in chunk c, at the place the order gives it
InChunk(entities, i, c) ==
    \E j \in 1..Len(Chunk(entities, c)) :
        /\ (c - 1) * batch_size + j = i
        /\ Chunk(entities, c)[j] = entities[i]

\* the rows of a chunk are in the table
ChunkStored(entities, c, t) ==
    \A j \in 1..Len(Chunk(entities, c)) :
        /\ Key(Chunk(entities, c)[j]) \in DOMAIN t
        /\ t[Key(Chunk(entities, c)[j])] = Chunk(entities, c)[j]

\* C22: batch_upsert splits the entities into consecutive chunks of at most
\* batch_size, every entity in exactly one chunk; it submits every chunk, also
\* after an earlier chunk failed; it returns true iff every chunk succeeded.
C22_ChunkedBatchWrite ==
    probe.op = "batch_upsert" =>
        LET es == probe.entities
            n  == NChunks(es)
        IN  /\ \A c \in 1..n : Len(Chunk(es, c)) \in 1..batch_size
            /\ \A i \in 1..Len(es) :
                 Cardinality({ c \in 1..n : InChunk(es, i, c) }) = 1
            /\ \A c \in 1..n : probe.out[c] => ChunkStored(es, c, probe.after)
            /\ probe.success <=> \A c \in 1..n : probe.out[c]

\* the first chunk failed, the second was still submitted and brought a row
\* the table did not hold, and the call returned false
C22_Witness ==
    /\ probe.op = "batch_upsert"
    /\ NChunks(probe.entities) >= 2
    /\ ~probe.out[1] /\ probe.out[2]
    /\ ~probe.success
    /\ \E j \in 1..Len(Chunk(probe.entities, 2)) :
         Key(Chunk(probe.entities, 2)[j]) \notin DOMAIN probe.before
    /\ ChunkStored(probe.entities, 2, probe.after)

----------------------------------------------------------------------------
(* C23  Duplicate dates are last-write-wins *)

\* row j is the last row of its date in the batch, and not the only one
LastOfDuplicates(j) ==
    /\ \E i \in 1..(j - 1) : data_df[i].date = data_df[j].date
    /\ \A k \in (j + 1)..Len(data_df) : data_df[k].date # data_df[j].date

\* C23: when a batch holds two records of one normalized date, after a call
\* whose storage calls all succeeded the stored record of that date is the
\* one that comes last in the batch.
C23_LastWriteWins ==
    (Classified /\ AllOk(calls)) =>
        \A j \in DOMAIN data_df :
            LastOfDuplicates(j) =>
                LET k == <<dataset_name, data_df[j].date>>
                IN  /\ k \in DOMAIN store[dataset_name]
                    /\ store[dataset_name][k] = Entity(dataset_name, data_df[j])

----------------------------------------------------------------------------
(* smart_update on rows that carry a column outside value_fields *)

\* releases of day 1: the tracked value as stored, at the tolerance, beyond
\* it, or null, and an untracked note as stored or rewritten
NoteRows ==
    { [date |-> <<1, 12>>, value |-> v, rate |-> 0, note |-> n] :
        v \in {0, Tolerance, 21, NaN}, n \in {0, 1} }

NoteFeed == { <<a>> : a \in NoteRows } \cup { <<a, b>> : a \in NoteRows, b \in NoteRows }

\* the table holds day 1 with the note 0 and a number or a null
InitNoted ==
    /\ Fresh
    /\ store \in { [ds \in Datasets |->
                      IF ds = TestDataset
                      THEN (<<ds, <<1, 0>>>> :>
                               Entity(ds, [date |-> <<1, 0>>, value |-> v,
                                           rate |-> 0, note |-> 0]))
                      ELSE EmptyTable] : v \in {0, NaN} }

SmartUpdateNoted ==
    /\ runs = 0
    /\ \E df0 \in NoteFeed :
         \E flt \in FaultPlans(store[TestDataset], TestDataset, df0) :
            Reconcile(TestDataset, df0, flt)

NextNoted == SmartUpdateNoted

SpecNoted == InitNoted /\ [][NextNoted]_vars

----------------------------------------------------------------------------
(* C24  Unchanged records generate no write *)

\* row i meets a stored record and no tracked field of it qualifies
Unchanged(i) ==
    /\ data_df[i].date \in DOMAIN existing_data
    /\ \A f \in Range(value_fields) : ~Differs(i, f)

\* row i is handed to neither batched write
InNoWriteGroup(i) ==
    /\ \A k \in DOMAIN new_records :
          new_records[k] # Entity(dataset_name, data_df[i])
    /\ \A k \in DOMAIN updates :
          updates[k] # Entity(dataset_name, data_df[i])

\* the record stored for the date of row i is the one the call read
StoredAsRead(i) ==
    LET k == <<dataset_name, data_df[i].date>>
    IN  /\ k \in DOMAIN store[dataset_name]
        /\ store[dataset_name][k] = existing_data[data_df[i].date]

\* C24: an incoming record of a stored date with no qualifying tracked-field
\* change (within the tolerance, null on either side, or differing only in an
\* untracked field) is in neither write group and emits no revision, and when
\* no row of its date qualifies the stored record, untracked fields included,
\* is left as it was.
C24_UnchangedNoWrite ==
    Classified =>
      \A i \in DOMAIN data_df :
        Unchanged(i) =>
          /\ InNoWriteGroup(i)
          /\ \A f \in Range(value_fields) : RevisionsOf(i, f) = {}
          /\ (\A j \in DOMAIN data_df :
                 data_df[j].date = data_df[i].date => Unchanged(j))
               => StoredAsRead(i)

\* a row that rewrites only the untracked note of a stored record: nothing is
\* written and the stored note stays
C24_Witness ==
    /\ Classified /\ AllOk(calls) /\ Len(data_df) = 1
    /\ data_df[1].note = 1 /\ data_df[1].value = Tolerance
    /\ Unchanged(1)
    /\ calls = <<Call("create_table", dataset_name, TRUE),
                 Call("query_entities", dataset_name, TRUE)>>
    /\ store[dataset_name][<<dataset_name, <<1, 0>>>>].note = 0

----------------------------------------------------------------------------
(* C25  The freshness gate avoids fetches *)

\* the last operation was a run_scraper that returned st
ScraperReturned(st) ==
    log # <<>> /\ log[Len(log)].op = "run_scraper" /\ status = st

----------------------------------------------------------------------------
(* C26  What a ledger entry says *)

\* the entry records a difference beyond the tolerance
BeyondTolerance(e) == Abs(e.new_value - e.old_value) > Tolerance

\* the entry's old value is the one the table held for its date and field
\* before the step, and its new value is one the batch of the step brought
\* for that date and field
SaysWhatHappened(e) ==
    LET k == <<e.dataset, e.data_date>>
    IN  /\ k \in DOMAIN store[e.dataset]
        /\ e.old_value = store[e.dataset][k][e.value_field]
        /\ \E i \in DOMAIN data_df' :
              /\ data_df'[i].date = e.data_date
              /\ data_df'[i][e.value_field] = e.new_value

\* C26: every ledger entry ever written records a difference of more than
\* 0.001; its old value is the value stored for that date and field when the
\* call that wrote it read the table, its new value the incoming value of
\* that call for the same date and field.
C26_LedgerEntriesTruthful ==
    /\ [](\A e \in Rev(ledger) : BeyondTolerance(e))
    /\ [][\A k \in DOMAIN ledger' \ DOMAIN ledger :
              SaysWhatHappened(ledger'[k])]_vars

\* a call that revised both tracked fields of a stored record and wrote both
\* entries
C26_Witness ==
    /\ Classified /\ AllOk(calls)
    /\ Cardinality({ e.value_field : e \in Rev(ledger) }) = 2
    /\ \E e \in Rev(ledger) : e.old_value = 0 /\ e.new_value = 21

----------------------------------------------------------------------------
(* C27  Convergence after a successful run *)

\* the record stored for the date of row i agrees with the row in every
\* tracked field that is a number on both sides
Converged(i) ==
    LET k == <<dataset_name, data_df[i].date>>
    IN  /\ k \in DOMAIN store[dataset_name]
        /\ \A f \in Range(value_fields) :
              (~isna(data_df[i][f]) /\ ~isna(store[dataset_name][k][f]))
                => Abs(store[dataset_name][k][f] - data_df[i][f]) <= Tolerance

\* C27: after a smart_update call that reached its writes and in which every
\* write group succeeded, with distinct incoming dates, every tracked field
\* that is non-null in the incoming record and in the record stored after
\* the call differs between the two by at most 0.001.
C27_ConvergedAfterSuccess ==
    (Classified /\ WritesOk(calls) /\ DistinctDates(data_df)) =>
        \A i \in DOMAIN data_df : Converged(i)

\* a call that rewrote a stored record whose value had moved beyond the
\* tolerance and inserted a record of a new date
C27_Witness ==
    /\ Classified /\ AllOk(calls) /\ DistinctDates(data_df)
    /\ Len(new_records) = 1 /\ Len(updates) = 1
    /\ \E i \in DOMAIN data_df :
          /\ Differs(i, "value")
          /\ store[dataset_name][<<dataset_name, data_df[i].date>>].value
                = data_df[i].value

----------------------------------------------------------------------------
(* C28  A closed gate leaves the dataset alone *)

\* the metadata lookup of the run that is being logged, if it made one
GateLookups(cs) ==
    { i \in DOMAIN cs : cs[i].by = "should_update" /\ cs[i].op = "get_entity" }

\* the run asked the gate, the lookup answered, and fewer than the refresh
\* period had passed since the recorded last_run: should_update said false
GateClosed(cs, name) ==
    /\ \E i \in GateLookups(cs) : cs[i].ok
    /\ <<"dataset", name>> \in DOMAIN metadata
    /\ now - Recorded_last_run(name) < DefaultFrequencyHours

\* a call that writes a record, a revision or run metadata
WriteCall(c) == c.op \in {"batch_upsert", "upsert_entity"}

\* C28: when should_update answers false, run_scraper returns
\* 'no_update_needed' and writes no record, no ledger entry and no run
\* metadata: the records, the revisions and last_run are as before the run.
C28_ClosedGateNoWrite ==
    [][(/\ log' # log
        /\ log'[Len(log')].op = "run_scraper"
        /\ GateClosed(log'[Len(log')].calls, dataset_name'))
          => /\ status' = "no_update_needed"
             /\ \A i \in DOMAIN log'[Len(log')].calls :
                   ~WriteCall(log'[Len(log')].calls[i])
             /\ store' = store
             /\ ledger' = ledger
             /\ metadata' = metadata]_vars

\* a second run within the refresh period: the gate was asked, nothing was
\* written, and the table and last_run of the first run are still there
C28_Witness ==
    /\ ScraperReturned("no_update_needed")
    /\ runs = 2
    /\ Made(calls, "get_entity")
    /\ store[dataset_name] # EmptyTable
    /\ <<"dataset", dataset_name>> \in DOMAIN metadata

----------------------------------------------------------------------------
(* C29  The freshness gate fails open *)

\* should_update was just asked and its metadata lookup failed
LookupFailed == gate # NoGate /\ ~gate.ok

\* should_update was just asked and no run is recorded for the dataset
NeverRun == gate # NoGate /\ <<"dataset", gate.dataset>> \notin DOMAIN metadata

\* C29: when the run-metadata lookup fails, get_last_run yields no timestamp
\* and should_update answers true, as it does when no run was ever recorded;
\* asking the gate writes nothing to the store.
C29_GateFailsOpen ==
    /\ [](LookupFailed =>
            /\ get_last_run(metadata, gate.dataset, gate.ok) = NoRun
            /\ gate.answer)
    /\ [](NeverRun => gate.answer)
    /\ [][gate' # NoGate =>
            (store' = store /\ ledger' = ledger /\ metadata' = metadata)]_vars

\* a run was recorded less than the refresh period ago, the lookup failed,
\* and the gate answered true
C29_Witness ==
    /\ LookupFailed
    /\ gate.answer
    /\ <<"dataset", gate.dataset>> \in DOMAIN metadata
    /\ now - Recorded_last_run(gate.dataset) < gate.hours

----------------------------------------------------------------------------
(* The orchestrator run: main and run_edb_scrapers (azure_fred_scraper.py) *)

\* SCRAPER_CONFIGS.items(), in the order of the configuration
ConfigOrder == <<"auto_sales", "unemployment_rate">>

\* a loop that gives up at the first dataset that fails
NextPosition_stop(i, st) ==
    IF st = "failed" THEN Len(ConfigOrder) + 1 ELSE i + 1

\* the for loop goes on to the next dataset whatever the status was
NextPosition(i, st) == i + 1

\* the name goes to the list of its status, anything but 'updated' and
\* 'no_update_needed' to failed
Tally(s, name, st) ==
    [s EXCEPT !.updated = IF st = "updated" THEN Append(@, name) ELSE @,
              !.no_update_needed =
                  IF st = "no_update_needed" THEN Append(@, name) ELSE @,
              !.failed = IF st \notin {"updated", "no_update_needed"}
                         THEN Append(@, name) ELSE @,
              !.i = NextPosition(@, st)]

\* main() enters run_edb_scrapers with its three empty lists
StartScrapers ==
    /\ summary = NoSummary
    /\ summary' = [op |-> "running", i |-> 1, updated |-> <<>>,
                   no_update_needed |-> <<>>, failed |-> <<>>,
                   total_datasets |-> 0]
    /\ UNCHANGED <<store, ledger, metadata, now, stamp, data_df, existing_data,
                   new_records, updates, revisions, results, log, dataset_name,
                   status, gate, changes, history, proc, probe>>

\* one turn of the loop: create_scraper raises, or run_scraper returns a status
ProcessDataset ==
    /\ summary.op = "running"
    /\ summary.i <= Len(ConfigOrder)
    /\ LET name == ConfigOrder[summary.i]
       IN  \/ /\ summary' = Tally(summary, name, "failed")
              /\ UNCHANGED <<store, ledger, metadata, now, stamp, data_df,
                             existing_data, new_records, updates, revisions,
                             results, log, dataset_name, status, gate, changes,
                             history, proc, probe>>
           \/ /\ \E plan \in ScraperPlans(name) : run_scraper(name, plan)
              /\ summary' = Tally(summary, name, status')

\* main() adds up the lists into the run summary
Summarize ==
    /\ summary.op = "running"
    /\ summary.i > Len(ConfigOrder)
    /\ summary' = [summary EXCEPT
                     !.op = "done",
                     !.total_datasets = Len(summary.updated)
                                        + Len(summary.no_update_needed)
                                        + Len(summary.failed)]
    /\ UNCHANGED <<store, ledger, metadata, now, stamp, data_df, existing_data,
                   new_records, updates, revisions, results, log, dataset_name,
                   status, gate, changes, history, proc, probe>>

NextAll == StartScrapers \/ ProcessDataset \/ Summarize

SpecAll == InitEmpty /\ [][NextAll]_vars

----------------------------------------------------------------------------
(* C30  Per-dataset outcome and failure isolation *)

\* how often a name stands in a list
Occurrences(list, name) == Cardinality({ k \in DOMAIN list : list[k] = name })

\* how often a name stands in the three lists together
Listed(name) ==
    Occurrences(summary.updated, name)
    + Occurrences(summary.no_update_needed, name)
    + Occurrences(summary.failed, name)

\* C30: in one orchestrator run every configured dataset ends in exactly one
\* of the lists updated, no_update_needed and failed, whatever happened to
\* the datasets before it, and total_datasets is the number of configured
\* datasets.
C30_EveryDatasetAccounted ==
    summary.op = "done" =>
        /\ \A k \in DOMAIN ConfigOrder : Listed(ConfigOrder[k]) = 1
        /\ summary.total_datasets = Len(ConfigOrder)

\* the first dataset failed and the second was still processed and updated
C30_Witness ==
    /\ summary.op = "done"
    /\ summary.failed = <<ConfigOrder[1]>>
    /\ summary.updated = <<ConfigOrder[2]>>
    /\ store[ConfigOrder[2]] # EmptyTable

====
